---------------------------- MODULE Spec2Model ----------------------------
(***************************************************************************)
(* Model of docker_health_exporter.py: the module-level configuration and  *)
(* label schema, DockerHealthCollector (connect_to_docker,                 *)
(* should_monitor_container, get_container_health, update_metrics,         *)
(* start_polling / poll_loop, stop_polling) and the two process-wide       *)
(* gauges.                                                                 *)
(*                                                                         *)
(* Python values are held as follows.  A str is a TLA+ string.  An int     *)
(* that ends up in a dict next to strs (the failure streak) is held as its *)
(* decimal numeral, which is what str() makes of it and what float()       *)
(* parses back; the gauges hold numbers.  A dict is a function whose       *)
(* DOMAIN is its key set.  Missing stands for "no such key / no such       *)
(* attribute" and None for Python's None in the descriptors handed in by   *)
(* the runtime client; neither is a value a label can carry.  A call that  *)
(* can raise returns [raised, value].                                      *)
(*                                                                         *)
(* Every polling thread runs the same poll_loop.  pc, containers, idx,     *)
(* container, monitored, container_data, tick, before and born belong to   *)
(* the polling thread that takes the next step; others holds the same      *)
(* fields of every other polling thread, and Switch hands the processor    *)
(* from one to another.  The gauges, the configuration and the collector's *)
(* docker_client and running are shared by all of them.                    *)
(***************************************************************************)
EXTENDS Integers, Sequences, FiniteSets, Bags, TLC

VARIABLES
    OPT_IN_ONLY,            \* module global, line 14
    NO_DEFAULT_LABELS,      \* module global, line 17
    LABEL_MAPPINGS,         \* module global, lines 20-27: <<key, metric label>> pairs in dict order
    ALL_LABELS,             \* module global, lines 36-44
    CONTAINER_HEALTH,       \* gauge docker_container_health_status: label values -> value
    HEALTH_FAILURE_STREAK,  \* gauge docker_container_health_failure_streak
    docker_client,          \* self.docker_client
    running,                \* self.running
    pc,                     \* position of the polling worker (or of the direct caller)
    containers,             \* update_metrics: the listing of the tick in progress
    idx,                    \* update_metrics: index of the container being processed
    container,              \* the descriptor last handed to the filter / the inspector
    monitored,              \* last return value of should_monitor_container
    container_data,         \* last outcome of get_container_health
    ticks,                  \* number of update_metrics calls started
    tick,                   \* what the tick in progress (or last finished) did
    before,                 \* the two gauges as they were when that tick started
    LABEL_MAPPINGS_ENV,     \* module global, line 21: the text of the environment variable
    others,                 \* the polling threads that are not taking the next step
    born,                   \* the value of stops when this polling thread was started
    stops,                  \* number of stop_polling calls made so far
    response                \* what the last HTTP request was answered with

vars == <<OPT_IN_ONLY, NO_DEFAULT_LABELS, LABEL_MAPPINGS, ALL_LABELS,
          CONTAINER_HEALTH, HEALTH_FAILURE_STREAK, docker_client, running,
          pc, containers, idx, container, monitored, container_data,
          ticks, tick, before, LABEL_MAPPINGS_ENV, others, born, stops, response>>

----------------------------------------------------------------------------
(* Bounds *)

MaxContainers == 2
MaxTicks == 2

----------------------------------------------------------------------------
(* Python values *)

Missing == "<missing>"
None == "<None>"

EmptyDict == [k \in {} |-> ""]

\* dict.get(key, default)
Get(d, key, default) == IF key \in DOMAIN d THEN d[key] ELSE default

\* d[key] = value
Put(d, key, value) == [k \in DOMAIN d \cup {key} |-> IF k = key THEN value ELSE d[k]]

\* str.lower() on the label values of the model
Lower(s) ==
    CASE s \in {"false", "False", "FALSE"} -> "false"
      [] s \in {"true", "True", "TRUE"} -> "true"
      [] s = "Yes" -> "yes"
      [] OTHER -> s

\* s[:12] on the identifiers of the model
IdPrefixLen == 12
Chars(s) ==
    CASE s = "0123456789abcdef" -> <<"0","1","2","3","4","5","6","7","8","9","a","b","c","d","e","f">>
      [] s = "0123456789abXYZ" -> <<"0","1","2","3","4","5","6","7","8","9","a","b","X","Y","Z">>
      [] s = "0123456789ab" -> <<"0","1","2","3","4","5","6","7","8","9","a","b">>
      [] s = "c0ffee" -> <<"c","0","f","f","e","e">>
      [] s = "sha256:0a1b2c3d" -> <<"s","h","a","2","5","6",":","0","a","1","b","2","c","3","d">>
      [] s = "sha256:0a1b2" -> <<"s","h","a","2","5","6",":","0","a","1","b","2">>
      [] OTHER -> <<s>>
Known == {"0123456789abcdef", "0123456789abXYZ", "0123456789ab", "c0ffee",
          "sha256:0a1b2c3d", "sha256:0a1b2"}
Prefix(s, n) ==
    LET cs == Chars(s)
        p == SubSeq(cs, 1, IF Len(cs) < n THEN Len(cs) ELSE n)
    IN IF s \notin Known THEN s ELSE CHOOSE t \in Known : Chars(t) = p


----------------------------------------------------------------------------
(* Module-level configuration, lines 13-66 *)

ENABLED_LABEL == "prometheus.health.enabled"
COMPOSE_PROJECT == "com.docker.compose.project"
COMPOSE_SERVICE == "com.docker.compose.service"
STACK_NAMESPACE == "com.docker.stack.namespace"
SWARM_SERVICE == "com.docker.swarm.service.name"
TEAM_LABEL == "com.example.team"
ENV_LABEL == "com.example.env"

BASE_LABELS == <<"container_id", "container_name", "image", "project", "service">>

\* The LABEL_MAPPINGS configurations of the model: none, one custom label,
\* two keys mapped to one metric label, and a metric label that is already a
\* base label or one of the record's health keys.
Mappings ==
    { <<>>,
      << <<TEAM_LABEL, "team">> >>,
      << <<TEAM_LABEL, "team">>, <<ENV_LABEL, "team">> >>,
      << <<TEAM_LABEL, "image">> >>,
      << <<TEAM_LABEL, "health_status">> >>,
      << <<TEAM_LABEL, "failure_streak">> >> }

\* json.dumps of a mapping: the text of a JSON object, held as its JSON value
Dumps(mapping) == [json |-> "object", pairs |-> mapping]

\* list(LABEL_MAPPINGS.values())
CUSTOM_LABELS(mapping) == [i \in 1..Len(mapping) |-> mapping[i][2]]

\* ALL_LABELS as lines 36-44 compute it
LabelSchema(noDefaults, mapping) ==
    IF noDefaults
    THEN IF CUSTOM_LABELS(mapping) = <<>>
         THEN <<"container_id">>
         ELSE CUSTOM_LABELS(mapping)
    ELSE BASE_LABELS \o CUSTOM_LABELS(mapping)

\* HEALTH_STATUS.get(status, 0): the default of another gauge
HealthValue_DefaultZero(status) ==
    CASE status = "unhealthy" -> 0
      [] status = "healthy" -> 1
      [] status = "starting" -> 2
      [] status = "none" -> 3
      [] OTHER -> 0

\* HEALTH_STATUS.get(status, 3)
HEALTH_STATUS == [s \in {"unhealthy", "healthy", "starting", "none"} |->
                    CASE s = "unhealthy" -> 0
                      [] s = "healthy" -> 1
                      [] s = "starting" -> 2
                      [] s = "none" -> 3]
HealthValue(status) == IF status \in DOMAIN HEALTH_STATUS THEN HEALTH_STATUS[status] ELSE 3

----------------------------------------------------------------------------
(* Container descriptors, as the runtime client hands them over *)

ToDict(f) == [k \in {k \in DOMAIN f : f[k] # Missing} |-> f[k]]

LabelKeys == {ENABLED_LABEL, COMPOSE_PROJECT, COMPOSE_SERVICE, STACK_NAMESPACE,
              SWARM_SERVICE, TEAM_LABEL}

LabelValues(k) ==
    CASE k = ENABLED_LABEL -> {Missing, "false", "False", "FALSE", "true", "True", "TRUE", "Yes", ""}
      [] k = COMPOSE_PROJECT -> {Missing, "", "proj"}
      [] k = COMPOSE_SERVICE -> {Missing, "web"}
      [] k = STACK_NAMESPACE -> {Missing, "stack"}
      [] k = SWARM_SERVICE -> {Missing, "svc"}
      [] k = TEAM_LABEL -> {Missing, "devops", "unhealthy", "2"}

LabelDicts ==
    { ToDict([k \in LabelKeys |->
          CASE k = ENABLED_LABEL -> e [] k = COMPOSE_PROJECT -> cp
            [] k = COMPOSE_SERVICE -> cs [] k = STACK_NAMESPACE -> sn
            [] k = SWARM_SERVICE -> ss [] k = TEAM_LABEL -> t]) :
        e \in LabelValues(ENABLED_LABEL), cp \in LabelValues(COMPOSE_PROJECT),
        cs \in LabelValues(COMPOSE_SERVICE), sn \in LabelValues(STACK_NAMESPACE),
        ss \in LabelValues(SWARM_SERVICE), t \in LabelValues(TEAM_LABEL) }

\* container.attrs down to Config.Labels
WellFormed(labels) == [attrsKind |-> "dict", config |-> "dict", labelsKind |-> "dict", labels |-> labels]
Malformed ==
    { [attrsKind |-> "missing", config |-> "missing", labelsKind |-> "missing", labels |-> EmptyDict],
      [attrsKind |-> "dict", config |-> "missing", labelsKind |-> "missing", labels |-> EmptyDict],
      [attrsKind |-> "dict", config |-> "null", labelsKind |-> "missing", labels |-> EmptyDict],
      [attrsKind |-> "dict", config |-> "dict", labelsKind |-> "missing", labels |-> EmptyDict],
      [attrsKind |-> "dict", config |-> "dict", labelsKind |-> "null", labels |-> EmptyDict] }
LabelDataAll == { WellFormed(l) : l \in LabelDicts } \cup Malformed
LabelDataFew ==
    { WellFormed(EmptyDict),
      WellFormed(ToDict([k \in LabelKeys |->
          CASE k = ENABLED_LABEL -> "true" [] k = COMPOSE_PROJECT -> "proj"
            [] k = COMPOSE_SERVICE -> "web" [] k = STACK_NAMESPACE -> "stack"
            [] k = SWARM_SERVICE -> "svc" [] k = TEAM_LABEL -> "devops"])),
      WellFormed(ToDict([k \in LabelKeys |->
          CASE k = ENABLED_LABEL -> Missing [] k = COMPOSE_PROJECT -> "proj"
            [] k = COMPOSE_SERVICE -> Missing [] k = STACK_NAMESPACE -> "stack"
            [] k = SWARM_SERVICE -> "svc" [] k = TEAM_LABEL -> "unhealthy"])) } \cup Malformed

\* container.attrs['State'] down to the Health block
Statuses == {Missing, "healthy", "unhealthy", "starting", "none", "", "paused"}
Streaks == {Missing, "0", "2"}
NoHealth ==
    { [state |-> "missing", healthKind |-> "missing", status |-> Missing, streak |-> Missing],
      [state |-> "dict", healthKind |-> "missing", status |-> Missing, streak |-> Missing] }
HealthAll == NoHealth \cup
    { [state |-> "dict", healthKind |-> "dict", status |-> s, streak |-> n] :
        s \in Statuses, n \in Streaks }
HealthFew ==
    { [state |-> "dict", healthKind |-> "missing", status |-> Missing, streak |-> Missing],
      [state |-> "dict", healthKind |-> "dict", status |-> "healthy", streak |-> "0"],
      [state |-> "dict", healthKind |-> "dict", status |-> "unhealthy", streak |-> "2"] }

\* container.id, container.name, container.image
Images ==
    { [imageKind |-> "missing", imageTags |-> <<>>, imageId |-> Missing],
      [imageKind |-> "raises", imageTags |-> <<>>, imageId |-> Missing],
      [imageKind |-> "object", imageTags |-> <<"nginx:latest">>, imageId |-> "sha256:0a1b2c3d"],
      [imageKind |-> "object", imageTags |-> <<>>, imageId |-> "sha256:0a1b2c3d"],
      [imageKind |-> "object", imageTags |-> <<>>, imageId |-> None] }
IdentityAll ==
    { [id |-> i, name |-> n, image |-> im] :
        i \in {"0123456789abcdef", "0123456789abXYZ", "c0ffee", None, Missing},
        n \in {"web-1", Missing},
        im \in Images }
IdentityFew ==
    { [id |-> "0123456789abcdef", name |-> "web-1",
       image |-> [imageKind |-> "object", imageTags |-> <<"nginx:latest">>, imageId |-> "sha256:0a1b2c3d"]],
      [id |-> "c0ffee", name |-> "web-1",
       image |-> [imageKind |-> "raises", imageTags |-> <<>>, imageId |-> Missing]] }

\* A descriptor without attrs has no State either.
Descriptor(ident, labelData, health) ==
    [id |-> ident.id, name |-> ident.name, image |-> ident.image,
     attrsKind |-> labelData.attrsKind, config |-> labelData.config,
     labelsKind |-> labelData.labelsKind, labels |-> labelData.labels,
     state |-> IF labelData.attrsKind = "missing" THEN "missing" ELSE health.state,
     healthKind |-> IF labelData.attrsKind = "missing" THEN "missing" ELSE health.healthKind,
     status |-> IF labelData.attrsKind = "missing" THEN Missing ELSE health.status,
     streak |-> IF labelData.attrsKind = "missing" THEN Missing ELSE health.streak]

\* The descriptors handed to the filter and the inspector when they are
\* called directly: each group of fields in full against a few of the others.
Descriptors ==
    { Descriptor(i, l, h) : i \in IdentityFew, l \in LabelDataAll, h \in HealthFew } \cup
    { Descriptor(i, l, h) : i \in IdentityFew, l \in LabelDataFew, h \in HealthAll } \cup
    { Descriptor(i, l, h) : i \in IdentityAll, l \in LabelDataFew, h \in HealthFew }


----------------------------------------------------------------------------
(* DockerHealthCollector *)

Raised == [raised |-> TRUE, value |-> EmptyDict]
Returned(v) == [raised |-> FALSE, value |-> v]

\* container.attrs.get('Config', {}).get('Labels', {}) followed by the first
\* labels.get(...): a null Config or a null Labels raises AttributeError.
ConfigLabels(c) ==
    IF c.config = "null" THEN Raised
    ELSE IF c.config = "missing" \/ c.labelsKind = "missing" THEN Returned(EmptyDict)
    ELSE IF c.labelsKind = "null" THEN Raised
    ELSE Returned(c.labels)

\* the label compared without .lower()
should_monitor_container_CaseSensitive(c) ==
    LET labels == IF c.attrsKind = "missing" THEN Raised ELSE ConfigLabels(c)
        enabled == Get(labels.value, ENABLED_LABEL, "")
    IN IF labels.raised THEN FALSE
       ELSE IF enabled = "false" THEN FALSE
       ELSE IF OPT_IN_ONLY /\ enabled # "true" THEN FALSE
       ELSE TRUE

\* the OPT_IN_ONLY test of line 113 left out
should_monitor_container_NoOptIn(c) ==
    LET labels == IF c.attrsKind = "missing" THEN Raised ELSE ConfigLabels(c)
        enabled == Lower(Get(labels.value, ENABLED_LABEL, ""))
    IN IF labels.raised THEN FALSE
       ELSE IF enabled = "false" THEN FALSE
       ELSE TRUE

should_monitor_container(c) ==
    LET labels == IF c.attrsKind = "missing" THEN Raised ELSE ConfigLabels(c)
        enabled == Lower(Get(labels.value, ENABLED_LABEL, ""))
    IN IF labels.raised THEN FALSE
       ELSE IF enabled = "false" THEN FALSE
       ELSE IF OPT_IN_ONLY /\ enabled # "true" THEN FALSE
       ELSE TRUE

\* container.id[:12] if hasattr(container, 'id') else 'unknown'
ShortId(c) ==
    IF c.id = Missing THEN Returned("unknown")
    ELSE IF c.id = None THEN Raised
    ELSE Returned(Prefix(c.id, IdPrefixLen))

\* lines 139-142
ImageName(c) ==
    IF c.image.imageKind = "missing" THEN Returned("unknown")
    ELSE IF c.image.imageKind = "raises" THEN Raised
    ELSE IF c.image.imageTags # <<>> THEN Returned(c.image.imageTags[1])
    ELSE IF c.image.imageId = None THEN Raised
    ELSE Returned(Prefix(c.image.imageId, IdPrefixLen))

\* lines 158-163
HealthInfo(c) ==
    IF c.attrsKind = "dict" /\ c.state = "dict" /\ c.healthKind = "dict"
    THEN IF c.status = Missing THEN Raised
         ELSE Returned([health_status |-> c.status,
                        failure_streak |-> IF c.streak = Missing THEN "0" ELSE c.streak])
    ELSE Returned([health_status |-> "none", failure_streak |-> "0"])

\* lines 178-179, for the pairs of the mapping from the i-th on
RECURSIVE CustomLabels(_, _, _, _)
CustomLabels(result, labels, mapping, i) ==
    IF i > Len(mapping) THEN result
    ELSE CustomLabels(Put(result, mapping[i][2], Get(labels, mapping[i][1], "")),
                      labels, mapping, i + 1)

get_container_health(c) ==
    LET container_id == ShortId(c)
        container_name == IF c.name = Missing THEN "unknown" ELSE c.name
        image_name == ImageName(c)
        labels == IF c.attrsKind = "missing" THEN Returned(EmptyDict) ELSE ConfigLabels(c)
        compose_project == Get(labels.value, COMPOSE_PROJECT, "")
        compose_service == Get(labels.value, COMPOSE_SERVICE, "")
        project == IF compose_project = "" THEN Get(labels.value, STACK_NAMESPACE, "")
                   ELSE compose_project
        service == IF compose_service = "" THEN Get(labels.value, SWARM_SERVICE, "")
                   ELSE compose_service
        health == HealthInfo(c)
        result == [k \in {"container_id", "container_name", "image", "project", "service",
                          "health_status", "failure_streak"} |->
                     CASE k = "container_id" -> container_id.value
                       [] k = "container_name" -> container_name
                       [] k = "image" -> image_name.value
                       [] k = "project" -> project
                       [] k = "service" -> service
                       [] k = "health_status" -> health.value.health_status
                       [] k = "failure_streak" -> health.value.failure_streak]
    IN IF container_id.raised \/ image_name.raised \/ labels.raised \/ health.raised
       THEN \* except Exception, lines 182-189
            IF container_id.raised THEN Raised
            ELSE Returned([k \in {"container_id", "health_status", "failure_streak"} |->
                             CASE k = "container_id" -> container_id.value
                               [] k = "health_status" -> "none"
                               [] k = "failure_streak" -> "0"])
       ELSE Returned(CustomLabels(result, labels.value, LABEL_MAPPINGS, 1))

----------------------------------------------------------------------------
(* The state after import and DockerHealthCollector.__init__ *)

NoContainer == Descriptor(
    [id |-> Missing, name |-> Missing,
     image |-> [imageKind |-> "missing", imageTags |-> <<>>, imageId |-> Missing]],
    [attrsKind |-> "missing", config |-> "missing", labelsKind |-> "missing", labels |-> EmptyDict],
    [state |-> "missing", healthKind |-> "missing", status |-> Missing, streak |-> Missing])

\* no HTTP request answered yet
NoResponse == [path |-> "none", code |-> 0, status |-> "",
               registry |-> <<EmptyDict, EmptyDict>>]

NoTick == [connect |-> "none", listing |-> "none", visited |-> 0, writes |-> 0,
           errors |-> 0, aborted |-> FALSE, previous |-> <<"none", "none">>]

Constructed ==
    /\ OPT_IN_ONLY \in BOOLEAN
    /\ NO_DEFAULT_LABELS \in BOOLEAN
    /\ LABEL_MAPPINGS \in Mappings
    /\ ALL_LABELS = LabelSchema(NO_DEFAULT_LABELS, LABEL_MAPPINGS)
    /\ CONTAINER_HEALTH = EmptyDict
    /\ HEALTH_FAILURE_STREAK = EmptyDict
    /\ docker_client = None
    /\ running = FALSE
    /\ containers = <<>>
    /\ idx = 0
    /\ container = NoContainer
    /\ monitored = FALSE
    /\ container_data = Raised
    /\ ticks = 0
    /\ tick = NoTick
    /\ before = <<EmptyDict, EmptyDict>>
    /\ LABEL_MAPPINGS_ENV = Dumps(LABEL_MAPPINGS)
    /\ others = EmptyBag
    /\ born = 0
    /\ stops = 0
    /\ response = NoResponse

----------------------------------------------------------------------------
(* The gauges: Gauge.labels with keyword arguments, and the child's set *)

HasDuplicates(seq) == \E i, j \in 1..Len(seq) : i # j /\ seq[i] = seq[j]

\* labels with metric_labels as keywords: the keyword names must be exactly the gauge's
\* label names; the series is keyed by the values in the order of ALL_LABELS.
LabelValuesOf(data) ==
    IF HasDuplicates(ALL_LABELS) THEN Raised
    ELSE Returned([i \in 1..Len(ALL_LABELS) |-> Get(data, ALL_LABELS[i], "")])

\* labels() creates the series, at 0, when it is new
Child(gauge, key) == IF key \in DOMAIN gauge THEN gauge ELSE Put(gauge, key, 0)

\* float(value) on the numerals and label values of the model
Float(s) ==
    CASE s = "0" -> [raised |-> FALSE, value |-> 0]
      [] s = "1" -> [raised |-> FALSE, value |-> 1]
      [] s = "2" -> [raised |-> FALSE, value |-> 2]
      [] s = "3" -> [raised |-> FALSE, value |-> 3]
      [] OTHER -> [raised |-> TRUE, value |-> 0]

----------------------------------------------------------------------------
(* start_polling, poll_loop, stop_polling and update_metrics *)

\* The descriptors a listing is made of
Healthy(id, labels) ==
    Descriptor([id |-> id, name |-> "web-1",
                image |-> [imageKind |-> "object", imageTags |-> <<"nginx:latest">>,
                           imageId |-> "sha256:0a1b2c3d"]],
               WellFormed(labels),
               [state |-> "dict", healthKind |-> "dict", status |-> "healthy", streak |-> "0"])

Listed ==
    { Healthy("0123456789abcdef", EmptyDict),
      [Healthy("0123456789abXYZ", ToDict([k \in {ENABLED_LABEL, TEAM_LABEL} |->
                                             IF k = ENABLED_LABEL THEN "True" ELSE "2"]))
          EXCEPT !.status = "starting", !.streak = Missing],
      Healthy("c0ffee", ToDict([k \in {ENABLED_LABEL} |-> "False"])),
      [Healthy("c0ffee", ToDict([k \in {ENABLED_LABEL, COMPOSE_PROJECT, SWARM_SERVICE, TEAM_LABEL} |->
                                    CASE k = ENABLED_LABEL -> "true" [] k = COMPOSE_PROJECT -> "proj"
                                      [] k = SWARM_SERVICE -> "svc" [] k = TEAM_LABEL -> "unhealthy"]))
          EXCEPT !.status = "unhealthy", !.streak = "2"],
      [Healthy(None, ToDict([k \in {ENABLED_LABEL} |-> "true"])) EXCEPT !.name = Missing] }

Listings == UNION { [1..n -> Listed] : n \in 0..MaxContainers }

Gauges == <<CONTAINER_HEALTH, HEALTH_FAILURE_STREAK>>
Config == <<OPT_IN_ONLY, NO_DEFAULT_LABELS, LABEL_MAPPINGS, ALL_LABELS, LABEL_MAPPINGS_ENV>>

\* what a step inside poll_loop leaves alone: the other threads, the calls
\* made from outside the thread and the HTTP side
Outside == <<others, born, stops, response>>

Init == Constructed /\ pc = "not_started"

\* create_app -> start_polling: set the flag, start the worker
StartPolling ==
    /\ pc = "not_started"
    /\ running' = TRUE
    /\ pc' = "poll_loop"
    /\ UNCHANGED <<Config, Outside, Gauges, docker_client, containers, idx, container,
                   monitored, container_data, ticks, tick, before>>

StopPolling ==
    /\ running
    /\ running' = FALSE
    /\ stops' = stops + 1
    /\ UNCHANGED <<Config, others, born, response, Gauges, docker_client, pc, containers,
                   idx, container, monitored, container_data, ticks, tick, before>>

\* a tick that starts from an empty registry (both gauges cleared)
EnterTick_ClearsRegistry ==
    /\ pc = "poll_loop"
    /\ running
    /\ ticks < MaxTicks
    /\ ticks' = ticks + 1
    /\ tick' = [NoTick EXCEPT !.previous = <<tick.connect, tick.listing>>]
    /\ before' = Gauges
    /\ pc' = "update_metrics"
    /\ containers' = <<>>
    /\ idx' = 0
    /\ container' = NoContainer
    /\ monitored' = FALSE
    /\ container_data' = Raised
    /\ CONTAINER_HEALTH' = EmptyDict
    /\ HEALTH_FAILURE_STREAK' = EmptyDict
    /\ UNCHANGED <<Config, Outside, docker_client, running>>

\* while self.running: ... update_metrics()
EnterTick ==
    /\ pc = "poll_loop"
    /\ running
    /\ ticks < MaxTicks
    /\ ticks' = ticks + 1
    /\ tick' = [NoTick EXCEPT !.previous = <<tick.connect, tick.listing>>]
    /\ before' = Gauges
    /\ pc' = "update_metrics"
    \* the locals of the previous call are gone
    /\ containers' = <<>>
    /\ idx' = 0
    /\ container' = NoContainer
    /\ monitored' = FALSE
    /\ container_data' = Raised
    /\ UNCHANGED <<Config, Outside, Gauges, docker_client, running>>

ExitLoop ==
    /\ pc = "poll_loop"
    /\ ~running
    /\ pc' = "exited"
    /\ UNCHANGED <<Config, Outside, Gauges, docker_client, running, containers, idx, container,
                   monitored, container_data, ticks, tick, before>>

\* time.sleep(self.poll_interval)
Sleep ==
    /\ pc = "returned"
    /\ pc' = "poll_loop"
    /\ UNCHANGED <<Config, Outside, Gauges, docker_client, running, containers, idx, container,
                   monitored, container_data, ticks, tick, before>>

\* connect_to_docker whose except branch falls through to return True
connect_to_docker_ReturnsTrue(ok) ==
    [client |-> IF ok THEN "client" ELSE docker_client, result |-> TRUE]

\* connect_to_docker: docker.from_env() returns a client or raises
connect_to_docker(ok) ==
    IF ok THEN [client |-> "client", result |-> TRUE]
    ELSE [client |-> docker_client, result |-> FALSE]

\* lines 195-198
Connect ==
    /\ pc = "update_metrics"
    /\ docker_client = None
    /\ \E ok \in BOOLEAN :
         LET r == connect_to_docker(ok) IN
           /\ docker_client' = r.client
           /\ tick' = [tick EXCEPT !.connect = IF r.result THEN "ok" ELSE "failed"]
           /\ pc' = IF r.result THEN "list" ELSE "returned"
    /\ UNCHANGED <<Config, Outside, Gauges, running, containers, idx, container,
                   monitored, container_data, ticks, before>>

\* a tick that connects again although a client is held, and loses the
\* client when that attempt fails
Connected_Reconnects ==
    /\ pc = "update_metrics"
    /\ docker_client # None
    /\ \E ok \in BOOLEAN :
         /\ docker_client' = IF ok THEN "client" ELSE None
         /\ tick' = [tick EXCEPT !.connect = IF ok THEN "ok" ELSE "failed"]
         /\ pc' = IF ok THEN "list" ELSE "returned"
    /\ UNCHANGED <<Config, Outside, Gauges, running, containers, idx, container,
                   monitored, container_data, ticks, before>>

\* a client is held: no connection attempt
Connected ==
    /\ pc = "update_metrics"
    /\ docker_client # None
    /\ pc' = "list"
    /\ UNCHANGED <<Config, Outside, Gauges, docker_client, running, containers, idx, container,
                   monitored, container_data, ticks, tick, before>>

\* line 203: the listing call returns
ListContainers ==
    /\ pc = "list"
    /\ \E listing \in Listings :
         /\ containers' = listing
         /\ idx' = 1
         /\ pc' = IF listing = <<>> THEN "returned" ELSE "container"
    /\ tick' = [tick EXCEPT !.listing = "ok"]
    /\ UNCHANGED <<Config, Outside, Gauges, docker_client, running, container,
                   monitored, container_data, ticks, before>>

\* a listing error that also drops the client
ListRaises_DropsClient ==
    /\ pc = "list"
    /\ tick' = [tick EXCEPT !.listing = "raised"]
    /\ docker_client' = None
    /\ pc' = "returned"
    /\ UNCHANGED <<Config, Outside, Gauges, running, containers, idx, container,
                   monitored, container_data, ticks, before>>

\* line 203 raises: except Exception, lines 244-245
ListRaises ==
    /\ pc = "list"
    /\ tick' = [tick EXCEPT !.listing = "raised"]
    /\ pc' = "returned"
    /\ UNCHANGED <<Config, Outside, Gauges, docker_client, running, containers, idx, container,
                   monitored, container_data, ticks, before>>

\* where the loop of line 206 goes after the container at idx
NextContainer == IF idx < Len(containers) THEN "container" ELSE "returned"

\* the handler of lines 238-240 slices the container's id
HandlerRaises(c) == ShortId(c).raised

\* lines 207-225: filter, inspect, build the labels, write the health gauge
ProcessContainer ==
    /\ pc = "container"
    /\ LET c == containers[idx]
           keep == should_monitor_container(c)
           data == get_container_health(c)
           key == LabelValuesOf(data.value)
           failed == data.raised \/ key.raised
       IN /\ container' = c
          /\ monitored' = keep
          /\ container_data' = IF keep THEN data ELSE container_data
          /\ IF ~keep
             THEN /\ pc' = NextContainer
                  /\ idx' = idx + 1
                  /\ tick' = [tick EXCEPT !.visited = @ + 1]
                  /\ UNCHANGED CONTAINER_HEALTH
             ELSE IF failed
             THEN /\ pc' = IF HandlerRaises(c) THEN "returned" ELSE NextContainer
                  /\ idx' = idx + 1
                  /\ tick' = [tick EXCEPT !.visited = @ + 1, !.errors = @ + 1,
                                          !.aborted = HandlerRaises(c)]
                  /\ UNCHANGED CONTAINER_HEALTH
             ELSE /\ CONTAINER_HEALTH' = Put(CONTAINER_HEALTH, key.value,
                                             HealthValue(data.value["health_status"]))
                  /\ pc' = "streak"
                  /\ tick' = [tick EXCEPT !.visited = @ + 1, !.writes = @ + 1]
                  /\ UNCHANGED idx
    /\ UNCHANGED <<Config, Outside, HEALTH_FAILURE_STREAK, docker_client, running, containers,
                   ticks, before>>

\* the streak added to the series (inc) instead of set
WriteStreak_Accumulates ==
    /\ pc = "streak"
    /\ LET data == container_data.value
           key == LabelValuesOf(data).value
           value == Float(data["failure_streak"])
           series == Child(HEALTH_FAILURE_STREAK, key)
       IN /\ HEALTH_FAILURE_STREAK' =
                IF value.raised THEN series
                ELSE Put(series, key, series[key] + value.value)
          /\ tick' = [tick EXCEPT !.writes = IF value.raised THEN @ ELSE @ + 1]
    /\ pc' = NextContainer
    /\ idx' = idx + 1
    /\ UNCHANGED <<Config, Outside, CONTAINER_HEALTH, docker_client, running, containers, container,
                   monitored, container_data, ticks, before>>

\* lines 228-240: write the streak gauge, log the container
WriteStreak ==
    /\ pc = "streak"
    /\ LET data == container_data.value
           key == LabelValuesOf(data).value
           value == Float(data["failure_streak"])
           logged == {"container_name", "container_id", "health_status", "failure_streak"}
                        \subseteq DOMAIN data
       IN /\ HEALTH_FAILURE_STREAK' =
                IF value.raised THEN Child(HEALTH_FAILURE_STREAK, key)
                ELSE Put(HEALTH_FAILURE_STREAK, key, value.value)
          /\ tick' = [tick EXCEPT !.writes = IF value.raised THEN @ ELSE @ + 1,
                                  !.errors = IF value.raised \/ ~logged THEN @ + 1 ELSE @]
    /\ pc' = NextContainer
    /\ idx' = idx + 1
    /\ UNCHANGED <<Config, Outside, CONTAINER_HEALTH, docker_client, running, containers, container,
                   monitored, container_data, ticks, before>>

Next ==
    \/ StartPolling
    \/ StopPolling
    \/ EnterTick
    \/ ExitLoop
    \/ Sleep
    \/ Connect
    \/ Connected
    \/ ListContainers
    \/ ListRaises
    \/ ProcessContainer
    \/ WriteStreak

Spec == Init /\ [][Next]_vars

----------------------------------------------------------------------------
(* The import of the module, lines 14-58, before create_app *)

\* LABEL_MAPPINGS texts that are not a JSON object of strings: not JSON at
\* all, a list, a number, null, and an object with a null value
MalformedEnv ==
    { [json |-> "invalid", pairs |-> <<>>],
      [json |-> "array", pairs |-> <<>>],
      [json |-> "number", pairs |-> <<>>],
      [json |-> "null", pairs |-> <<>>],
      [json |-> "object", pairs |-> << <<TEAM_LABEL, None>> >>] }

EnvTexts == { Dumps(m) : m \in Mappings } \cup MalformedEnv

\* json.loads: JSONDecodeError for text that is not JSON, else its value
json_loads(text) ==
    IF text.json = "invalid" THEN [raised |-> TRUE, value |-> text]
    ELSE [raised |-> FALSE, value |-> text]

\* the state when line 21 has run
InitImport ==
    /\ OPT_IN_ONLY \in BOOLEAN
    /\ NO_DEFAULT_LABELS \in BOOLEAN
    /\ LABEL_MAPPINGS = <<>>
    /\ LABEL_MAPPINGS_ENV \in EnvTexts
    /\ ALL_LABELS = <<>>
    /\ CONTAINER_HEALTH = EmptyDict
    /\ HEALTH_FAILURE_STREAK = EmptyDict
    /\ docker_client = None
    /\ running = FALSE
    /\ containers = <<>>
    /\ idx = 0
    /\ container = NoContainer
    /\ monitored = FALSE
    /\ container_data = Raised
    /\ ticks = 0
    /\ tick = NoTick
    /\ before = <<EmptyDict, EmptyDict>>
    /\ others = EmptyBag
    /\ born = 0
    /\ stops = 0
    /\ response = NoResponse
    /\ pc = "import"

\* lines 22-58.  Only JSONDecodeError is caught (line 25); .values() at line
\* 33 raises AttributeError on a value that is not a dict, and Gauge(...) at
\* lines 47-58 raises on a label name that is not a str.  An exception that
\* leaves the module body abandons the import, and its globals with it.
Import ==
    /\ pc = "import"
    /\ LET parsed == json_loads(LABEL_MAPPINGS_ENV)
           mapping == IF parsed.raised THEN LABEL_MAPPINGS ELSE parsed.value.pairs
           values_raises == ~parsed.raised /\ parsed.value.json # "object"
           labels == LabelSchema(NO_DEFAULT_LABELS, mapping)
           gauge_raises == \E i \in 1..Len(labels) : labels[i] = None
       IN IF values_raises \/ gauge_raises
          THEN /\ pc' = "import_failed"
               /\ UNCHANGED <<LABEL_MAPPINGS, ALL_LABELS>>
          ELSE /\ pc' = "not_started"
               /\ LABEL_MAPPINGS' = mapping
               /\ ALL_LABELS' = labels
    /\ UNCHANGED <<OPT_IN_ONLY, NO_DEFAULT_LABELS, LABEL_MAPPINGS_ENV, Outside, Gauges,
                   docker_client, running, containers, idx, container, monitored,
                   container_data, ticks, tick, before>>

\* the import, then create_app and its polling thread
NextStartup == Import \/ Next

SpecStartup == InitImport /\ [][NextStartup]_vars

----------------------------------------------------------------------------
(* The application: start_polling called again, and the HTTP routes *)

MaxThreads == 2

\* the fields of the polling thread that takes the next step
Thread ==
    [pc |-> pc, containers |-> containers, idx |-> idx, container |-> container,
     monitored |-> monitored, container_data |-> container_data, tick |-> tick,
     before |-> before, born |-> born]

\* a thread as threading.Thread(target=poll_loop).start() leaves it
NewThread ==
    [pc |-> "poll_loop", containers |-> <<>>, idx |-> 0, container |-> NoContainer,
     monitored |-> FALSE, container_data |-> Raised, tick |-> NoTick,
     before |-> <<EmptyDict, EmptyDict>>, born |-> stops]

\* start_polling on a collector that has been started before: the flag is set
\* and one more thread is started, whatever became of the earlier ones
StartPollingAgain ==
    /\ pc # "not_started"
    /\ BagCardinality(others) + 1 < MaxThreads
    /\ running' = TRUE
    /\ others' = others (+) SetToBag({NewThread})
    /\ UNCHANGED <<Config, Gauges, docker_client, pc, containers, idx, container, monitored,
                   container_data, ticks, tick, before, born, stops, response>>

\* the interpreter hands the processor to another polling thread
Switch ==
    \E t \in BagToSet(others) :
        /\ others' = (others (-) SetToBag({t})) (+) SetToBag({Thread})
        /\ pc' = t.pc
        /\ containers' = t.containers
        /\ idx' = t.idx
        /\ container' = t.container
        /\ monitored' = t.monitored
        /\ container_data' = t.container_data
        /\ tick' = t.tick
        /\ before' = t.before
        /\ born' = t.born
        /\ UNCHANGED <<Config, Gauges, docker_client, running, ticks, stops, response>>

\* the listings the runtime returns while the application is watched: none
\* or one healthy container
Running == { <<>>, <<Healthy("0123456789abcdef", EmptyDict)>> }

\* line 203, as ListContainers, over Running
ListRunning ==
    /\ pc = "list"
    /\ \E listing \in Running :
         /\ containers' = listing
         /\ idx' = 1
         /\ pc' = IF listing = <<>> THEN "returned" ELSE "container"
    /\ tick' = [tick EXCEPT !.listing = "ok"]
    /\ UNCHANGED <<Config, Outside, Gauges, docker_client, running, container,
                   monitored, container_data, ticks, before>>

\* GET /health answered 200 whatever the collector holds
health_AlwaysOk == [status |-> "ok", code |-> 200]

\* lines 286-292: if collector.docker_client
health ==
    IF docker_client # None THEN [status |-> "ok", code |-> 200]
    ELSE [status |-> "error", code |-> 500]

\* GET /health; the routes exist once create_app has started the polling
GetHealth ==
    /\ pc # "not_started"
    /\ response' = [path |-> "/health", code |-> health.code, status |-> health.status,
                    registry |-> <<EmptyDict, EmptyDict>>]
    /\ UNCHANGED <<Config, Gauges, docker_client, running, pc, containers, idx, container,
                   monitored, container_data, ticks, tick, before, others, born, stops>>

\* lines 281-284: generate_latest(REGISTRY)
metrics == [code |-> 200, registry |-> Gauges]

\* GET /metrics
GetMetrics ==
    /\ pc # "not_started"
    /\ response' = [path |-> "/metrics", code |-> metrics.code, status |-> "",
                    registry |-> metrics.registry]
    /\ UNCHANGED <<Config, Gauges, docker_client, running, pc, containers, idx, container,
                   monitored, container_data, ticks, tick, before, others, born, stops>>

\* one polling thread and the HTTP routes
NextApp ==
    \/ StartPolling
    \/ StopPolling
    \/ EnterTick
    \/ ExitLoop
    \/ Sleep
    \/ Connect
    \/ Connected
    \/ ListRunning
    \/ ListRaises
    \/ ProcessContainer
    \/ WriteStreak
    \/ GetHealth
    \/ GetMetrics

SpecApp == Init /\ [][NextApp]_vars

\* the environment left at its defaults, lines 14-21
InitDefaults ==
    /\ Init
    /\ ~OPT_IN_ONLY
    /\ ~NO_DEFAULT_LABELS
    /\ LABEL_MAPPINGS = <<>>

\* start_polling and stop_polling called in any order, no HTTP request
NextThreads ==
    \/ StartPolling
    \/ StartPollingAgain
    \/ StopPolling
    \/ Switch
    \/ EnterTick
    \/ ExitLoop
    \/ Sleep
    \/ Connect
    \/ Connected
    \/ ListRunning
    \/ ListRaises
    \/ ProcessContainer
    \/ WriteStreak

SpecThreads == InitDefaults /\ [][NextThreads]_vars


----------------------------------------------------------------------------
(* The collector's methods called directly, as the tests call them *)

InitCalls == Constructed /\ pc = "caller"

CallShouldMonitor ==
    /\ pc = "caller"
    /\ \E c \in Descriptors :
         /\ container' = c
         /\ monitored' = should_monitor_container(c)
    /\ pc' = "should_monitor_returned"
    /\ UNCHANGED <<Config, Outside, Gauges, docker_client, running,
                   containers, idx, container_data, ticks, tick, before>>

CallGetContainerHealth ==
    /\ pc = "caller"
    /\ \E c \in Descriptors :
         /\ container' = c
         /\ container_data' = get_container_health(c)
    /\ pc' = "get_health_returned"
    /\ UNCHANGED <<Config, Outside, Gauges, docker_client, running,
                   containers, idx, monitored, ticks, tick, before>>

\* update_metrics called once with a client whose listing holds one container
CallUpdateMetrics ==
    /\ pc = "caller"
    /\ docker_client' = "client"
    /\ \E c \in Descriptors : containers' = <<c>>
    /\ idx' = 1
    /\ ticks' = 1
    /\ tick' = [NoTick EXCEPT !.connect = "ok", !.listing = "ok"]
    /\ pc' = "container"
    /\ UNCHANGED <<Config, Outside, Gauges, running, container, monitored, container_data, before>>

NextCalls ==
    \/ CallShouldMonitor
    \/ CallGetContainerHealth
    \/ CallUpdateMetrics
    \/ ProcessContainer
    \/ WriteStreak

SpecCalls == InitCalls /\ [][NextCalls]_vars

\* update_metrics called with a client whose listing is any of Listings
CallUpdateMetricsOnListing ==
    /\ pc = "caller"
    /\ docker_client' = "client"
    /\ \E listing \in Listings :
         /\ containers' = listing
         /\ pc' = IF listing = <<>> THEN "returned" ELSE "container"
    /\ idx' = 1
    /\ ticks' = 1
    /\ tick' = [NoTick EXCEPT !.connect = "ok", !.listing = "ok"]
    /\ before' = Gauges
    /\ UNCHANGED <<Config, Outside, Gauges, running, container, monitored, container_data>>

\* update_metrics called a second time, the client returning the same listing
CallUpdateMetricsAgain ==
    /\ pc = "returned"
    /\ ticks = 1
    /\ pc' = IF containers = <<>> THEN "returned" ELSE "container"
    /\ idx' = 1
    /\ ticks' = ticks + 1
    /\ tick' = [NoTick EXCEPT !.connect = "ok", !.listing = "ok",
                              !.previous = <<tick.connect, tick.listing>>]
    /\ before' = Gauges
    /\ UNCHANGED <<Config, Outside, Gauges, docker_client, running, containers, container,
                   monitored, container_data>>

NextTwice ==
    \/ CallUpdateMetricsOnListing
    \/ CallUpdateMetricsAgain
    \/ ProcessContainer
    \/ WriteStreak

SpecTwice == InitCalls /\ [][NextTwice]_vars

\* The containers of a listing of two: either id, with no label, or with the
\* team label holding a status word or a numeral, and a Health block that
\* is healthy with streak 0 or unhealthy with streak 2.
PairLabels ==
    { EmptyDict,
      ToDict([k \in {TEAM_LABEL} |-> "unhealthy"]),
      ToDict([k \in {TEAM_LABEL} |-> "2"]) }
PairOf(id) ==
    { Healthy(id, labels) : labels \in PairLabels } \cup
    { [Healthy(id, labels) EXCEPT !.status = "unhealthy", !.streak = "2"] :
        labels \in PairLabels }

\* update_metrics called with a client whose listing holds two containers
CallUpdateMetricsOnPair ==
    /\ pc = "caller"
    /\ docker_client' = "client"
    /\ \E first \in PairOf("0123456789abcdef"), second \in PairOf("c0ffee") :
         containers' = <<first, second>>
    /\ pc' = "container"
    /\ idx' = 1
    /\ ticks' = 1
    /\ tick' = [NoTick EXCEPT !.connect = "ok", !.listing = "ok"]
    /\ before' = Gauges
    /\ UNCHANGED <<Config, Outside, Gauges, running, container, monitored, container_data>>

NextPair ==
    \/ CallUpdateMetricsOnPair
    \/ ProcessContainer
    \/ WriteStreak

SpecPair == InitCalls /\ [][NextPair]_vars

\* Containers that share their short id, name and image, with different
\* Health blocks, and a container whose id is None
Sharing ==
    { Healthy("0123456789abcdef", EmptyDict),
      [Healthy("0123456789abXYZ", EmptyDict) EXCEPT !.status = "unhealthy", !.streak = "2"],
      Healthy(None, EmptyDict) }

MaxListing == 3

\* update_metrics called with a client whose listing is a sequence of them
CallUpdateMetricsOnSharing ==
    /\ pc = "caller"
    /\ docker_client' = "client"
    /\ \E n \in 0..MaxListing : \E listing \in [1..n -> Sharing] :
         /\ containers' = listing
         /\ pc' = IF listing = <<>> THEN "returned" ELSE "container"
    /\ idx' = 1
    /\ ticks' = 1
    /\ tick' = [NoTick EXCEPT !.connect = "ok", !.listing = "ok"]
    /\ before' = Gauges
    /\ UNCHANGED <<Config, Outside, Gauges, running, container, monitored, container_data>>

NextOrder ==
    \/ CallUpdateMetricsOnSharing
    \/ ProcessContainer
    \/ WriteStreak

SpecOrder == InitCalls /\ [][NextOrder]_vars


----------------------------------------------------------------------------
(* Properties *)

FalseSpellings == {"false", "False", "FALSE"}
TrueSpellings == {"true", "True", "TRUE"}

\* The label the runtime reports for the container, Missing when it reports
\* no such label or no label map at all.
CarriedLabel(c, k) ==
    IF c.attrsKind = "dict" /\ c.config = "dict" /\ c.labelsKind = "dict" /\ k \in DOMAIN c.labels
    THEN c.labels[k]
    ELSE Missing

HasLabelMap(c) == c.attrsKind = "dict" /\ c.config = "dict" /\ c.labelsKind = "dict"

\* C1: a container whose prometheus.health.enabled label is "false" in any
\* letter case is never monitored, in either mode and whatever else it carries.
C1_OptOutAlwaysWins ==
    (pc = "should_monitor_returned"
        /\ CarriedLabel(container, ENABLED_LABEL) \in FalseSpellings)
    => monitored = FALSE

C1_Witness ==
    /\ pc = "should_monitor_returned"
    /\ CarriedLabel(container, ENABLED_LABEL) = "FALSE"
    /\ CarriedLabel(container, TEAM_LABEL) = "devops"
    /\ ~OPT_IN_ONLY
    /\ monitored = FALSE

\* C2: in opt-in-only mode the filter accepts exactly the containers whose
\* label is "true" in any letter case; in normal mode it accepts every
\* container with a label map and no opt-out label.
C2_OptInOnlyMode ==
    pc = "should_monitor_returned" =>
        /\ OPT_IN_ONLY =>
             (monitored <=> CarriedLabel(container, ENABLED_LABEL) \in TrueSpellings)
        /\ (~OPT_IN_ONLY /\ HasLabelMap(container)
               /\ CarriedLabel(container, ENABLED_LABEL) \notin FalseSpellings)
           => monitored

C2_Witness ==
    /\ pc = "should_monitor_returned"
    /\ OPT_IN_ONLY
    /\ CarriedLabel(container, ENABLED_LABEL) = "True"
    /\ monitored

\* C3 as claimed: with label data missing or malformed (no attrs, no Config,
\* no Labels, null Labels) the filter answers as for an absent label: true in
\* normal mode, false in opt-in-only mode.
C3_MalformedLabelsAreAbsent ==
    (pc = "should_monitor_returned"
        /\ \/ container.attrsKind = "missing"
           \/ container.attrsKind = "dict" /\ container.config = "missing"
           \/ container.attrsKind = "dict" /\ container.config = "dict"
                /\ container.labelsKind \in {"missing", "null"})
    => monitored = ~OPT_IN_ONLY

\* C4: the health gauge is written with 0 for "unhealthy", 1 for "healthy",
\* 2 for "starting" and 3 for every other status string of the record, so
\* every value it holds is one of 0, 1, 2, 3.
C4_HealthValueOfStatus ==
    /\ \A k \in DOMAIN CONTAINER_HEALTH : CONTAINER_HEALTH[k] \in {0, 1, 2, 3}
    /\ pc = "streak" =>
         LET status == container_data.value["health_status"]
             written == CONTAINER_HEALTH[LabelValuesOf(container_data.value).value]
         IN /\ status = "unhealthy" => written = 0
            /\ status = "healthy" => written = 1
            /\ status = "starting" => written = 2
            /\ status \notin {"unhealthy", "healthy", "starting"} => written = 3

C4_Witness ==
    /\ pc = "streak"
    /\ container.status = "paused"
    /\ container_data.value["health_status"] = "paused"
    /\ CONTAINER_HEALTH[LabelValuesOf(container_data.value).value] = 3

\* C5 as claimed: the inspector returns 'none' and streak 0 for a descriptor
\* without a Health block, and the block's own Status and FailingStreak
\* (0 when the counter is absent) for a descriptor with one.
C5_HealthBlockReturned ==
    pc = "get_health_returned" =>
        LET hasBlock == container.attrsKind = "dict" /\ container.state = "dict"
                            /\ container.healthKind = "dict"
            data == container_data.value
        IN /\ ~hasBlock =>
                /\ ~container_data.raised
                /\ data["health_status"] = "none"
                /\ data["failure_streak"] = "0"
           /\ (hasBlock /\ container.status # Missing) =>
                /\ ~container_data.raised
                /\ data["health_status"] = container.status
                /\ data["failure_streak"] =
                       (IF container.streak = Missing THEN "0" ELSE container.streak)

\* C6 as claimed: the returned record's project is the compose project label
\* if non-empty, else the stack namespace label, else ''; its service is the
\* compose service label if non-empty, else the swarm service name, else ''.
C6_ProjectAndServiceFallback ==
    pc = "get_health_returned" =>
        LET label(k) == IF CarriedLabel(container, k) = Missing THEN ""
                        ELSE CarriedLabel(container, k)
            project == IF label(COMPOSE_PROJECT) # "" THEN label(COMPOSE_PROJECT)
                       ELSE label(STACK_NAMESPACE)
            service == IF label(COMPOSE_SERVICE) # "" THEN label(COMPOSE_SERVICE)
                       ELSE label(SWARM_SERVICE)
        IN HasLabelMap(container) =>
             /\ ~container_data.raised
             /\ Get(container_data.value, "project", Missing) = project
             /\ Get(container_data.value, "service", Missing) = service

\* The reference schema: the base labels unless noDefaults, then the mapping's
\* values in order, each only where not already present; container_id alone
\* when that leaves nothing.
RECURSIVE AppendNew(_, _)
AppendNew(schema, names) ==
    IF names = <<>> THEN schema
    ELSE AppendNew(IF \E i \in 1..Len(schema) : schema[i] = Head(names)
                   THEN schema ELSE Append(schema, Head(names)),
                   Tail(names))

resolve(baseLabels, customMapping, noDefaults) ==
    LET names == [i \in 1..Len(customMapping) |-> customMapping[i][2]]
    IN IF ~noDefaults THEN AppendNew(baseLabels, names)
       ELSE IF customMapping # <<>> THEN AppendNew(<<>>, names)
       ELSE <<"container_id">>

\* C7 as claimed: ALL_LABELS is the reference schema, non-empty and without
\* a repeated name.
C7_SchemaIsResolved ==
    /\ ALL_LABELS = resolve(BASE_LABELS, LABEL_MAPPINGS, NO_DEFAULT_LABELS)
    /\ ALL_LABELS # <<>>
    /\ ~HasDuplicates(ALL_LABELS)

\* C8 as claimed: when a tick whose listing succeeded is over, every listed
\* container that passes the filter and whose own inspection and writes do
\* not fail has a series in both gauges, whatever happened to the others.
C8_FailureStaysWithItsContainer ==
    (pc = "returned" /\ tick.listing = "ok") =>
        \A i \in 1..Len(containers) :
            LET c == containers[i]
                data == get_container_health(c)
                key == LabelValuesOf(data.value)
            IN (should_monitor_container(c) /\ ~data.raised /\ ~key.raised
                    /\ ~Float(data.value["failure_streak"]).raised)
               => /\ key.value \in DOMAIN CONTAINER_HEALTH
                  /\ key.value \in DOMAIN HEALTH_FAILURE_STREAK

\* C9: a tick that starts without a client and fails to connect leaves
\* docker_client None, lists nothing, writes nothing and ends; the tick after
\* it attempts the connection again; a successful attempt sets docker_client.
C9_ConnectFailureSkipsTick ==
    /\ [](tick.connect = "failed" =>
            /\ docker_client = None
            /\ tick.listing = "none"
            /\ tick.writes = 0
            /\ Gauges = before
            /\ pc \in {"returned", "poll_loop", "exited"})
    /\ [](tick.connect = "ok" => docker_client = "client")
    /\ [][(tick.connect = "failed" /\ ticks' = ticks + 1)
            => (pc' = "update_metrics" /\ docker_client' = None)]_vars
    /\ [][(pc = "update_metrics" /\ docker_client = None /\ pc' # pc)
            => tick'.connect \in {"ok", "failed"}]_vars

C9_Witness ==
    /\ ticks = 2
    /\ tick.previous[1] = "failed"
    /\ tick.connect = "failed"
    /\ pc = "returned"

\* C10: a tick whose listing call raises ends with both gauges exactly as
\* they were when it started and with the client kept; the tick after it
\* goes through the listing step again.
C10_ListingFailureKeepsRegistry ==
    /\ [](tick.listing = "raised" =>
            /\ Gauges = before
            /\ tick.writes = 0
            /\ docker_client = "client"
            /\ pc \in {"returned", "poll_loop", "exited"})
    /\ [][(tick.listing = "raised" /\ ticks' = ticks + 1)
            => (pc' = "update_metrics" /\ docker_client' = "client")]_vars
    /\ [][(pc = "update_metrics" /\ docker_client # None /\ pc' # pc) => pc' = "list"]_vars
    /\ [][(pc = "list" /\ pc' # pc) => tick'.listing \in {"ok", "raised"}]_vars

C10_Witness ==
    /\ tick.listing = "raised"
    /\ before[1] # EmptyDict
    /\ before[2] # EmptyDict
    /\ pc = "returned"

\* the containers of the listings in Running
Watched == UNION { { listing[i] : i \in 1..Len(listing) } : listing \in Running }

\* C11 as claimed: in every registry a GET /metrics returns, a label tuple
\* has a health series exactly if it has a streak series, and the two values
\* of a tuple are those of one record of a container the runtime lists.
C11_GaugePairPublishedTogether ==
    response.path = "/metrics" =>
        LET health_series == response.registry[1]
            streak_series == response.registry[2]
        IN /\ DOMAIN health_series = DOMAIN streak_series
           /\ \A k \in DOMAIN health_series \cap DOMAIN streak_series :
                \E c \in Watched :
                    LET data == get_container_health(c)
                    IN /\ ~data.raised
                       /\ LabelValuesOf(data.value) = Returned(k)
                       /\ health_series[k] = HealthValue(data.value["health_status"])
                       /\ Float(data.value["failure_streak"]) =
                              [raised |-> FALSE, value |-> streak_series[k]]

\* every polling thread there is
Threads == IF pc = "not_started" THEN others ELSE others (+) SetToBag({Thread})

\* how many of them are at one of the positions
ThreadsAt(positions) ==
    LET there == { t \in BagToSet(Threads) : t.pc \in positions }
    IN BagCardinality([t \in there |-> Threads[t]])

InsideUpdateMetrics == {"update_metrics", "list", "container", "streak"}

\* C12 as claimed: whatever start_polling and stop_polling calls are made,
\* at most one execution of update_metrics is in progress, so that no tick
\* starts while another is under way and no two threads write the gauges.
C12_SinglePollerInFlight == ThreadsAt(InsideUpdateMetrics) <= 1

\* C13 as claimed: when a tick that started from an empty registry and whose
\* listing succeeded is over, every listed container that passes the filter
\* has its series in both gauges, no gauge holds any other series, and the
\* tick made exactly one write to each gauge per such container.
C13_OneSeriesPairPerEligibleContainer ==
    (pc = "returned" /\ tick.listing = "ok" /\ before = <<EmptyDict, EmptyDict>>) =>
        LET eligible == { i \in 1..Len(containers) : should_monitor_container(containers[i]) }
            data(i) == get_container_health(containers[i])
            key(i) == LabelValuesOf(data(i).value)
        IN /\ \A i \in eligible :
                /\ ~data(i).raised
                /\ ~key(i).raised
                /\ key(i).value \in DOMAIN CONTAINER_HEALTH
                /\ key(i).value \in DOMAIN HEALTH_FAILURE_STREAK
           /\ \A k \in DOMAIN CONTAINER_HEALTH \cup DOMAIN HEALTH_FAILURE_STREAK :
                \E i \in eligible : key(i) = Returned(k)
           /\ tick.writes = 2 * Cardinality(eligible)

\* C14: when update_metrics has run a second time on the listing and the
\* descriptors of its first run, both gauges hold exactly the series and the
\* values they held when the second run started.
C14_SecondTickChangesNothing ==
    (pc = "returned" /\ ticks > 1) => Gauges = before

C14_Witness ==
    /\ pc = "returned"
    /\ ticks > 1
    /\ Len(containers) > 1
    /\ tick.writes > 1
    /\ \E k \in DOMAIN HEALTH_FAILURE_STREAK : HEALTH_FAILURE_STREAK[k] > 1
    /\ Gauges = before

\* C15: every GET /health is answered "ok" with 200 if the collector holds a
\* client at that moment and "error" with 500 if it holds none; no answer is
\* "ok" while every connection attempt so far has failed.
C15_HealthReportsConnection ==
    /\ [][(response' # response /\ response'.path = "/health") =>
            /\ docker_client # None => (response'.status = "ok" /\ response'.code = 200)
            /\ docker_client = None => (response'.status = "error" /\ response'.code = 500)]_vars
    /\ []((response.path = "/health" /\ docker_client = None) =>
            (response.status = "error" /\ response.code = 500))

C15_Witness ==
    /\ response.path = "/health"
    /\ response.status = "error"
    /\ response.code = 500
    /\ tick.previous[1] = "failed"
    /\ tick.connect = "failed"
    /\ docker_client = None

\* C16 as claimed: no LABEL_MAPPINGS text aborts the import, and after the
\* import of a malformed one (not JSON, or JSON that is not an object of
\* strings) the mapping is empty and ALL_LABELS is the schema of the empty
\* mapping.
C16_MalformedMappingDegradesToEmpty ==
    /\ pc # "import_failed"
    /\ (pc # "import" /\ LABEL_MAPPINGS_ENV \in MalformedEnv) =>
         /\ LABEL_MAPPINGS = <<>>
         /\ ALL_LABELS = LabelSchema(NO_DEFAULT_LABELS, <<>>)

\* the keys update_metrics reads from a record, lines 222-237
RecordKeys == {"container_id", "container_name", "image", "project", "service",
               "health_status", "failure_streak"}

\* C17 as claimed: get_container_health raises for no descriptor; the record
\* it returns carries every key update_metrics reads, and a field the
\* descriptor does carry (here its name) is kept whatever other field is
\* missing or malformed.
C17_InspectorSubstitutesPerField ==
    pc = "get_health_returned" =>
        /\ ~container_data.raised
        /\ RecordKeys \subseteq DOMAIN container_data.value
        /\ container_data.value["container_name"] =
               (IF container.name = Missing THEN "unknown" ELSE container.name)

\* C18 as claimed: for a container with a compose project label the returned
\* record holds that project under the key 'stack', next to container_id,
\* container_name, image, service, health_status and failure_streak, and
\* each label of LABEL_MAPPINGS under its metric label name.
C18_ProjectUnderStackKey ==
    (pc = "get_health_returned" /\ CarriedLabel(container, COMPOSE_PROJECT) \notin {Missing, ""}
        /\ ~container_data.raised /\ "service" \in DOMAIN container_data.value) =>
        LET data == container_data.value
        IN /\ {"container_id", "container_name", "image", "stack", "service",
               "health_status", "failure_streak"} \subseteq DOMAIN data
           /\ data["stack"] = CarriedLabel(container, COMPOSE_PROJECT)
           /\ \A i \in 1..Len(LABEL_MAPPINGS) :
                (\A j \in 1..Len(LABEL_MAPPINGS) : j > i => LABEL_MAPPINGS[j][2] # LABEL_MAPPINGS[i][2])
                => /\ LABEL_MAPPINGS[i][2] \in DOMAIN data
                   /\ data[LABEL_MAPPINGS[i][2]] =
                        (IF CarriedLabel(container, LABEL_MAPPINGS[i][1]) = Missing THEN ""
                         ELSE CarriedLabel(container, LABEL_MAPPINGS[i][1]))

\* C19 as claimed: a polling thread that was alive when stop_polling was
\* called leaves the top of its loop only by terminating, and starts no
\* further tick, whatever calls are made afterwards.
C19_StoppedWorkerStartsNoTick ==
    [][(pc = "poll_loop" /\ born < stops /\ pc' # pc /\ others' = others)
          => (pc' = "exited" /\ ticks' = ticks)]_vars

\* the label tuples the step of the thread at this position may write: the
\* tuple the container being processed resolves to, when it is monitored and
\* its record and tuple were built
WrittenTuples ==
    IF pc = "container"
    THEN LET c == containers[idx]
             data == get_container_health(c)
         IN IF should_monitor_container(c) /\ ~data.raised
                /\ ~LabelValuesOf(data.value).raised
            THEN {LabelValuesOf(data.value).value}
            ELSE {}
    ELSE IF pc = "streak"
    THEN {LabelValuesOf(container_data.value).value}
    ELSE {}

\* C20: no step removes a series from either gauge, and a series keeps its
\* value across every step except a write for a container of the current
\* tick that resolves to its label tuple; so every series present when a
\* tick started is still present at any point of that tick.
C20_SeriesAreNeverRemoved ==
    /\ [][\/ Gauges' = Gauges
          \/ LET written == WrittenTuples
             IN \A g \in 1..2 : \A key \in DOMAIN Gauges[g] :
                  /\ key \in DOMAIN Gauges'[g]
                  /\ key \notin written => Gauges'[g][key] = Gauges[g][key]]_vars
    /\ [](\A g \in 1..2 : DOMAIN before[g] \subseteq DOMAIN Gauges[g])

\* a later tick listed the containers without error and wrote nothing (the
\* containers published before are gone or opted out), and the series of
\* the earlier tick are all still there with their values
C20_Witness ==
    /\ pc = "returned"
    /\ ticks > 1
    /\ tick.listing = "ok"
    /\ tick.writes = 0
    /\ tick.errors = 0
    /\ before[1] # EmptyDict
    /\ before[2] # EmptyDict
    /\ Gauges = before

\* the metric label names of LABEL_MAPPINGS leave the record's own keys alone
MappingKeepsRecordKeys ==
    \A i \in 1..Len(LABEL_MAPPINGS) : LABEL_MAPPINGS[i][2] \notin RecordKeys

\* C21 as claimed: for a descriptor with a Health block (its id, image and
\* labels being readable, and no custom label named like a key of the
\* record), the record's streak is the block's FailingStreak (0 if absent),
\* its health classifies as the block's Status does (Unknown, 3, when Status
\* is absent), and the record keeps name, image, project, service and the
\* custom labels.
C21_HealthBlockWithoutStatus ==
    (/\ pc = "get_health_returned"
     /\ container.attrsKind = "dict" /\ container.state = "dict"
     /\ container.healthKind = "dict"
     /\ ~ShortId(container).raised /\ ~ImageName(container).raised
     /\ ~ConfigLabels(container).raised
     /\ MappingKeepsRecordKeys) =>
        /\ ~container_data.raised
        /\ LET data == container_data.value
           IN /\ {"health_status", "failure_streak"} \subseteq DOMAIN data
              /\ HealthValue(data["health_status"]) =
                     (IF container.status = Missing THEN 3 ELSE HealthValue(container.status))
              /\ data["failure_streak"] =
                     (IF container.streak = Missing THEN "0" ELSE container.streak)
              /\ {"container_name", "image", "project", "service"} \subseteq DOMAIN data
              /\ data["container_name"] =
                     (IF container.name = Missing THEN "unknown" ELSE container.name)
              /\ data["image"] = ImageName(container).value
              /\ \A i \in 1..Len(LABEL_MAPPINGS) : LABEL_MAPPINGS[i][2] \in DOMAIN data

\* C22: once a connection has succeeded the collector keeps that client
\* through every later step (ticks, listing failures, container failures);
\* no later tick makes a connection attempt; and every GET /health from then
\* on is answered "ok" with 200, so an "ok" is never followed by an "error".
C22_ConnectedIsAbsorbing ==
    /\ [][docker_client # None => docker_client' = docker_client]_vars
    /\ [][docker_client # None => tick'.connect \in {tick.connect, "none"}]_vars
    /\ [][(docker_client # None /\ response' # response /\ response'.path = "/health")
            => (response'.status = "ok" /\ response'.code = 200)]_vars
    /\ [][(response.path = "/health" /\ response.status = "ok" /\ response'.path = "/health")
            => response'.status = "ok"]_vars

\* the client was obtained in an earlier tick, the listings of the last two
\* ticks both failed, and /health answers "ok"
C22_Witness ==
    /\ docker_client = "client"
    /\ ticks > 1
    /\ tick.connect = "none"
    /\ tick.listing = "raised"
    /\ tick.previous[2] = "raised"
    /\ tick.errors = 0
    /\ response.path = "/health"
    /\ response.status = "ok"
    /\ response.code = 200

\* the Health block of a descriptor
HealthBlock(c) == <<c.state, c.healthKind, c.status, c.streak>>

\* C23 as claimed: after a tick over two monitored containers with the same
\* Health block, whose label tuples were built, the health-status series of
\* the two hold the same value and so do their failure-streak series,
\* whatever their labels and whatever LABEL_MAPPINGS is.
C23_ValuesDependOnHealthBlockOnly ==
    (pc = "returned" /\ Len(containers) = 2) =>
        LET first == containers[1]
            second == containers[2]
            k1 == LabelValuesOf(get_container_health(first).value)
            k2 == LabelValuesOf(get_container_health(second).value)
        IN (/\ HealthBlock(first) = HealthBlock(second)
            /\ should_monitor_container(first) /\ should_monitor_container(second)
            /\ ~get_container_health(first).raised /\ ~get_container_health(second).raised
            /\ ~k1.raised /\ ~k2.raised) =>
               /\ {k1.value, k2.value} \subseteq DOMAIN CONTAINER_HEALTH
               /\ {k1.value, k2.value} \subseteq DOMAIN HEALTH_FAILURE_STREAK
               /\ CONTAINER_HEALTH[k1.value] = CONTAINER_HEALTH[k2.value]
               /\ HEALTH_FAILURE_STREAK[k1.value] = HEALTH_FAILURE_STREAK[k2.value]

\* the positions of the listing whose container is monitored and resolves
\* to the label tuple t
Resolving(t) ==
    { i \in 1..Len(containers) :
        /\ should_monitor_container(containers[i])
        /\ ~get_container_health(containers[i]).raised
        /\ ~LabelValuesOf(get_container_health(containers[i]).value).raised
        /\ LabelValuesOf(get_container_health(containers[i]).value).value = t }

ResolvedTuples ==
    { t \in { LabelValuesOf(get_container_health(containers[i]).value).value :
                i \in 1..Len(containers) } : Resolving(t) # {} }

\* the tuples that several containers of the listing resolve to
SharedTuples == { t \in ResolvedTuples : Cardinality(Resolving(t)) > 1 }

\* C24 as claimed: after a tick, several monitored containers of the listing
\* that resolve to one label tuple share one series in each gauge, and its
\* values are those written for the last of them in listing order.
C24_LastInListingOrderWins ==
    pc = "returned" =>
        \A t \in SharedTuples :
            LET last == CHOOSE i \in Resolving(t) : \A j \in Resolving(t) : j <= i
                data == get_container_health(containers[last]).value
                streak == Float(data["failure_streak"])
            IN /\ t \in DOMAIN CONTAINER_HEALTH
               /\ t \in DOMAIN HEALTH_FAILURE_STREAK
               /\ CONTAINER_HEALTH[t] = HealthValue(data["health_status"])
               /\ ~streak.raised => HEALTH_FAILURE_STREAK[t] = streak.value

=============================================================================
